---- MODULE Spec2Model ----
(***************************************************************************)
(* Model of the cooperative ticket lock (ObjectLock) and of the browser   *)
(* tool (PuppeteerBrowserTool) of the chatluna repository.                *)
(*                                                                         *)
(* JavaScript runs one task at a time, so every action below is the code  *)
(* that runs between two suspension points (await) of one async function. *)
(***************************************************************************)
EXTENDS Integers, Sequences, FiniteSets, TLC

\* ------------------------------------------------------------------ bounds
\* number of concurrent callers of one ObjectLock instance
NumCallers == 3
\* number of lock() calls made on the instance in one run
MaxTickets == 3
\* number of unlock() calls made outside the contract in one run
MaxStray == 2

\* number of pages the browser hands out in one run
MaxPages == 3
\* length of the clock, in sweep periods
MaxTime == 3
\* number of closeBrowser() calls that can be awaiting page.close() at once
MaxClosers == 2
\* number of _call invocations that can be in flight at once
NumSlots == 2
\* number of nodes below document.body that processNode visits
MaxNodes == 3
\* number of a elements in the document
MaxLinks == 2
\* number of chunks the stream delivers before it ends or fails
MaxReads == 2

Callers == 1..NumCallers
Slots == 1..NumSlots

\* values a locked body (the func of runLocked) can resolve to
FnResults == {"r1", "r2"}
\* what a variable holds before it is assigned
None == "none"

VARIABLES
    lock,        \* ObjectLock._lock
    queue,       \* ObjectLock._queue
    currentId,   \* ObjectLock._currentId
    pc,          \* per caller: where its lock()/runLocked()/unlock() stands
    ticket,      \* per caller: the local const id of its lock() call
    result,      \* per caller: the local const result of runLocked
    ret,         \* per caller: what its last runLocked() call resolved to
    last,        \* the lock(), poll or unlock() the latest step made, and how it ended
    issued,      \* history: the ids handed out by lock(), in call order
    strays       \* history: the number of unlock() calls made outside the contract

lockVars == <<lock, queue, currentId, pc, ticket, result, ret, last, issued, strays>>

VARIABLES
    page,            \* PuppeteerBrowserTool.page: 0 is null, else the page's number
    lastActionTime,  \* PuppeteerBrowserTool.lastActionTime
    now,             \* Date.now(), in sweep periods (60000 ms)
    sweepDue,        \* the interval timer has a tick that has not run yet
    disposed,        \* the context's dispose event has been delivered
    disposeClose,    \* the page.close() awaited by the dispose listener's closeBrowser
    call,            \* per slot: the _call invocation in flight, or the last one
    closers,         \* the closeBrowser() calls awaiting page.close(): their pages
    openPages,       \* browser: the pages newPage() created that are not closed
    created          \* browser: the number of pages newPage() has created

toolVars == <<page, lastActionTime, now, sweepDue, disposed, disposeClose, call, closers,
              openPages, created>>

VARIABLES
    structuredText,  \* getPageText: the let structuredText of the page function
    stack,           \* getPageText: the elements whose processNode call is open
    nodes,           \* history: the number of nodes processNode was called for
    walked,          \* getPageText: processNode(document.body) has returned
    extracted        \* getPageText: what the page function returned

domVars == <<structuredText, stack, nodes, walked, extracted>>

VARIABLES
    links,           \* getStructuredUrls: the a elements visited so far, in document order
    urlStructure,    \* getStructuredUrls: the const urlStructure of the page function
    urlsResult       \* getStructuredUrls: how the call has ended, if it has

linkVars == <<links, urlStructure, urlsResult>>

VARIABLES
    ssePc,           \* sseIterable: where the generator stands
    reader,          \* sseIterable: the const reader: none, held or released
    splitted,        \* sseIterable: the const splitted of the chunk in hand
    cursor,          \* sseIterable: the let i of the for loop, counted from 1
    yielded,         \* history: what the generator yielded, and the item it came from
    thrown,          \* sseIterable: what the generator threw, if it did
    reads            \* history: the number of chunks reader.read() delivered

sseVars == <<ssePc, reader, splitted, cursor, yielded, thrown, reads>>

\* what the actions of each part leave alone
aroundLock == <<toolVars, domVars, linkVars, sseVars>>
aroundTool == <<lockVars, domVars, linkVars, sseVars>>
aroundDom == <<lockVars, toolVars, linkVars, sseVars>>
aroundLinks == <<lockVars, toolVars, domVars, sseVars>>
aroundSse == <<lockVars, toolVars, domVars, linkVars>>

vars == <<lockVars, toolVars, domVars, linkVars, sseVars>>

\* ------------------------------------------------------ ObjectLock helpers

\* the value of last after a step that calls neither lock() nor unlock()
NoCall == [op |-> None, id |-> -1, threw |-> FALSE]

\* Array.prototype.indexOf: 0-based index of the first occurrence, else -1
IndexOf(q, id) ==
    IF \E i \in 1..Len(q) : q[i] = id
    THEN (CHOOSE i \in 1..Len(q) : q[i] = id /\ \A j \in 1..(i - 1) : q[j] # id) - 1
    ELSE -1

\* splice(index) without the delete count: drops everything from index on
SpliceToEnd(q, index) ==
    LET start == IF index < 0 THEN (IF Len(q) + index < 0 THEN 0 ELSE Len(q) + index)
                 ELSE (IF index > Len(q) THEN Len(q) ELSE index)
    IN  SubSeq(q, 1, start)

\* Array.prototype.splice(index, 1): removes one element at the 0-based index;
\* a negative index counts from the end of the array
Splice(q, index) ==
    LET start == IF index < 0 THEN (IF Len(q) + index < 0 THEN 0 ELSE Len(q) + index)
                 ELSE (IF index > Len(q) THEN Len(q) ELSE index)
    IN  SubSeq(q, 1, start) \o SubSeq(q, start + 2, Len(q))

\* the id of a lock() call taken from the queue length instead of the counter
NextIdFromLength == Len(queue)

\* the id of a lock() call taken after the increment (++this._currentId)
NextIdIncremented == currentId + 1

\* const id = this._currentId++  (the value before the increment)
NextId == currentId

\* a waiter that only looks at the flag
MustWaitFlagOnly(id) == lock

\* a waiter that only looks at the head of the queue
MustWaitHeadOnly(id) == Len(queue) = 0 \/ queue[1] # id

\* the loop condition of lock(): this._queue[0] !== id || this._lock
\* (the head of an empty array is undefined, which differs from every id)
MustWait(id) == Len(queue) = 0 \/ queue[1] # id \/ lock

\* unlock() that only checks the flag
UnlockThrowsFlagOnly(id) == ~lock

\* the two guards of unlock(): throw new Error('unlock without lock')
UnlockThrows(id) == ~lock \/ IndexOf(queue, id) = -1

\* the queue after unlock(id) has run:  an unchanged queue when it throws
QueueAfterUnlock(id) ==
    IF UnlockThrows(id) THEN queue ELSE Splice(queue, IndexOf(queue, id))

\* an unlock() that leaves the flag alone
LockAfterUnlockKept(id) == lock

\* the flag after unlock(id) has run
LockAfterUnlock(id) == IF UnlockThrows(id) THEN lock ELSE FALSE

\* callers whose lock() has returned and who have not called unlock() yet
Held == {"held", "running"}
Holders == {p \in Callers : pc[p] \in Held}
\* a caller that is in no call may start one; callers in the same local state
\* are interchangeable, so the lowest-numbered of them makes the next call
CanCall(p) ==
    /\ pc[p] \in {"idle", "returned", "threw"}
    /\ \A q \in Callers : q < p => ~(pc[q] = pc[p] /\ ret[q] = ret[p])

\* ------------------------------------------------------ ObjectLock actions

\* lock() up to its first await (or to its return when the flag is clear);
\* waitPc and heldPc say where the caller stands afterwards
LockBody(p, waitPc, heldPc) ==
    /\ CanCall(p)
    /\ currentId < MaxTickets
    /\ LET id == NextId IN
        /\ currentId' = currentId + 1
        /\ queue' = Append(queue, id)
        /\ ticket' = [ticket EXCEPT ![p] = id]
        /\ issued' = Append(issued, id)
        /\ last' = [op |-> "lock", id |-> id, threw |-> FALSE]
        /\ IF lock
           THEN /\ pc' = [pc EXCEPT ![p] = waitPc]
                /\ lock' = lock
           ELSE /\ pc' = [pc EXCEPT ![p] = heldPc]
                /\ lock' = TRUE
    /\ ret' = [ret EXCEPT ![p] = None]
    /\ result' = [result EXCEPT ![p] = None]
    /\ UNCHANGED strays
    /\ UNCHANGED aroundLock

\* a caller calls lock() itself
Lock(p) == LockBody(p, "waiting", "held")

\* a caller calls runLocked(func): const id = await this.lock()
RunLocked(p) == LockBody(p, "waitingRun", "running")

\* a waiter wakes from sleep(10) and evaluates the loop condition again
Poll(p) ==
    /\ pc[p] \in {"waiting", "waitingRun"}
    /\ IF MustWait(ticket[p])
       THEN UNCHANGED <<lock, pc>>
       ELSE /\ lock' = TRUE
            /\ pc' = [pc EXCEPT ![p] = IF pc[p] = "waiting" THEN "held" ELSE "running"]
    /\ UNCHANGED <<queue, currentId, ticket, result, ret, issued, strays>>
    /\ last' = [op |-> "poll", id |-> ticket[p], threw |-> FALSE]
    /\ UNCHANGED aroundLock

\* a caller that holds the lock calls unlock() with the id its lock() returned
Unlock(p) ==
    /\ pc[p] = "held"
    /\ lock' = LockAfterUnlock(ticket[p])
    /\ queue' = QueueAfterUnlock(ticket[p])
    /\ last' = [op |-> "unlock", id |-> ticket[p], threw |-> UnlockThrows(ticket[p])]
    /\ pc' = [pc EXCEPT ![p] = IF UnlockThrows(ticket[p]) THEN "threw" ELSE "idle"]
    /\ ticket' = [ticket EXCEPT ![p] = -1]
    /\ UNCHANGED <<currentId, result, ret, issued, strays>>
    /\ UNCHANGED aroundLock

\* runLocked whose body resolved, returning without the unlock
FnResolvesNoUnlock(p) ==
    /\ pc[p] = "running"
    /\ \E v \in FnResults :
        /\ result' = [result EXCEPT ![p] = v]
        /\ pc' = [pc EXCEPT ![p] = "released"]
    /\ UNCHANGED <<lock, queue, currentId, ticket, ret, issued, strays>>
    /\ last' = NoCall
    /\ UNCHANGED aroundLock

\* runLocked: const result = await func() resolves, then await this.unlock(id)
FnResolves(p) ==
    /\ pc[p] = "running"
    /\ \E v \in FnResults :
        /\ lock' = LockAfterUnlock(ticket[p])
        /\ queue' = QueueAfterUnlock(ticket[p])
        /\ last' = [op |-> "unlock", id |-> ticket[p], threw |-> UnlockThrows(ticket[p])]
        /\ IF UnlockThrows(ticket[p])
           THEN /\ pc' = [pc EXCEPT ![p] = "threw"]
                /\ ticket' = [ticket EXCEPT ![p] = -1]
                /\ UNCHANGED result
           ELSE /\ pc' = [pc EXCEPT ![p] = "released"]
                /\ result' = [result EXCEPT ![p] = v]
                /\ UNCHANGED ticket
    /\ UNCHANGED <<currentId, ret, issued, strays>>
    /\ UNCHANGED aroundLock

\* runLocked: return result
Return(p) ==
    /\ pc[p] = "released"
    /\ ret' = [ret EXCEPT ![p] = result[p]]
    /\ pc' = [pc EXCEPT ![p] = "returned"]
    /\ ticket' = [ticket EXCEPT ![p] = -1]
    /\ UNCHANGED <<lock, queue, currentId, result, issued, strays>>
    /\ last' = NoCall
    /\ UNCHANGED aroundLock

\* runLocked with the release in a finally block
FnRejectsReleasing(p) ==
    /\ pc[p] = "running"
    /\ lock' = LockAfterUnlock(ticket[p])
    /\ queue' = QueueAfterUnlock(ticket[p])
    /\ pc' = [pc EXCEPT ![p] = "failed"]
    /\ UNCHANGED <<currentId, ticket, result, ret, issued, strays>>
    /\ last' = NoCall
    /\ UNCHANGED aroundLock

\* runLocked: await func() rejects; the rejection leaves runLocked at once,
\* this.unlock(id) is never reached
FnRejects(p) ==
    /\ pc[p] = "running"
    /\ pc' = [pc EXCEPT ![p] = "failed"]
    /\ UNCHANGED <<lock, queue, currentId, ticket, result, ret, issued, strays>>
    /\ last' = NoCall
    /\ UNCHANGED aroundLock

\* unlock(id) called by code that does not hold ticket id (any id at all)
StrayUnlock(id) ==
    /\ strays < MaxStray
    /\ strays' = strays + 1
    /\ lock' = LockAfterUnlock(id)
    /\ queue' = QueueAfterUnlock(id)
    /\ last' = [op |-> "unlock", id |-> id, threw |-> UnlockThrows(id)]
    /\ UNCHANGED <<currentId, pc, ticket, result, ret, issued>>
    /\ UNCHANGED aroundLock

LockInit ==
    /\ lock = FALSE
    /\ queue = <<>>
    /\ currentId = 0
    /\ pc = [p \in Callers |-> "idle"]
    /\ ticket = [p \in Callers |-> -1]
    /\ result = [p \in Callers |-> None]
    /\ ret = [p \in Callers |-> None]
    /\ last = NoCall
    /\ issued = <<>>
    /\ strays = 0

\* callers that keep to the contract: unlock only the id of one's own
\* completed lock(), once
LockNext ==
    \E p \in Callers :
        \/ Lock(p)
        \/ RunLocked(p)
        \/ Poll(p)
        \/ Unlock(p)
        \/ FnResolves(p)
        \/ Return(p)
        \/ FnRejects(p)

\* lock() calls that keep arriving without end. lock() and unlock() compare
\* ids for equality only, so the value of the counter is folded: a call takes
\* the least id that no queued ticket has, and the histories stand still.
FoldedId == CHOOSE i \in 0..NumCallers :
                /\ IndexOf(queue, i) = -1
                /\ \A j \in 0..(i - 1) : IndexOf(queue, j) # -1

\* lock() up to its first await, with the folded counter
LockAgain(p, waitPc, heldPc) ==
    /\ CanCall(p)
    /\ LET id == FoldedId IN
        /\ queue' = Append(queue, id)
        /\ ticket' = [ticket EXCEPT ![p] = id]
        /\ last' = [op |-> "lock", id |-> id, threw |-> FALSE]
        /\ IF lock
           THEN /\ pc' = [pc EXCEPT ![p] = waitPc]
                /\ lock' = lock
           ELSE /\ pc' = [pc EXCEPT ![p] = heldPc]
                /\ lock' = TRUE
    /\ ret' = [ret EXCEPT ![p] = None]
    /\ result' = [result EXCEPT ![p] = None]
    /\ UNCHANGED <<currentId, issued, strays>>
    /\ UNCHANGED aroundLock

\* callers that keep to the contract and whose locked bodies do not fail,
\* calling lock() and runLocked() again and again
RecurringNext ==
    \E p \in Callers :
        \/ LockAgain(p, "waiting", "held")
        \/ LockAgain(p, "waitingRun", "running")
        \/ Poll(p)
        \/ Unlock(p)
        \/ FnResolves(p)
        \/ Return(p)

\* every waiter polls again and again (sleep(10) always ends), every holder
\* calls unlock(), every locked body resolves, every runLocked returns
RecurringFairness ==
    \A p \in Callers :
        /\ WF_vars(Poll(p))
        /\ WF_vars(Unlock(p))
        /\ WF_vars(FnResolves(p))
        /\ WF_vars(Return(p))

\* the same, plus unlock() calls with arbitrary ids
MisuseNext ==
    \/ LockNext
    \/ \E id \in 0..MaxTickets : StrayUnlock(id)

\* ------------------------------------------- PuppeteerBrowserTool: texts

\* private readonly idleTimeout, as set by the constructor from its options,
\* in sweep periods
IdleTimeout == 2

\* the keys of this.actions, in the order Object.keys lists them
ActionKeys ==
    <<"open", "summarize", "text", "select", "previous", "get-html",
      "get-structured-urls">>
Verbs == {ActionKeys[i] : i \in 1..Len(ActionKeys)}

\* An input line is a sequence of pieces: a piece is a run of characters that
\* holds no white space, or the single space " ".
Words == Verbs \cup {"OPEN", "bogus", "u", "constructor", "__proto__"}
Inputs ==
    {<<w>> : w \in Words} \cup {<<w, " ", "u">> : w \in Words}
    \cup {<<>>, <<"open", " ">>, <<"text", " ", " ", "u", " ">>, <<" ", "text">>,
          <<" ", "u">>, <<"bogus", " ">>, <<"open", "u">>}

\* String.prototype.toLowerCase, piece by piece
LowerPiece(a) == IF a = "OPEN" THEN "open" ELSE a
ToLowerCase(str) == [i \in 1..Len(str) |-> LowerPiece(str[i])]

\* the white space characters of the model
WhiteSpace == {" ", "\n"}

\* String.prototype.trim: drops the white space at both ends
Trim(str) ==
    LET solid == {i \in 1..Len(str) : str[i] \notin WhiteSpace} IN
    IF solid = {} THEN <<>>
    ELSE SubSeq(str, CHOOSE i \in solid : \A j \in solid : i <= j,
                     CHOOSE i \in solid : \A j \in solid : i >= j)

\* String.prototype.slice(from, to) with 0-based bounds
Slice(str, from, to) == SubSeq(str, from + 1, to)

\* this.actions[action]: an own key gives its handler; the object literal also
\* inherits constructor (a function) and __proto__ (an object) from
\* Object.prototype; anything else is undefined
Lookup(action) ==
    IF Len(action) = 1 /\ action[1] \in Verbs THEN "handler"
    ELSE IF action = <<"constructor">> THEN "Object"
    ELSE IF action = <<"__proto__">> THEN "prototype"
    ELSE "undefined"

\* _call, lines 75-88: the action and the params of an input line
Parse(input) ==
    LET firstSpaceIndex == IndexOf(input, " ") IN
    IF firstSpaceIndex # -1
    THEN [action |-> ToLowerCase(Trim(Slice(input, 0, firstSpaceIndex))),
          params |-> Trim(Slice(input, firstSpaceIndex + 1, Len(input)))]
    ELSE IF Lookup(ToLowerCase(Trim(input))) = "undefined"
         THEN [action |-> <<"open">>, params |-> Trim(input)]
         ELSE [action |-> ToLowerCase(Trim(input)), params |-> <<>>]

\* Parse, worked out once for every input line of the model
Parsed == [input \in Inputs |-> Parse(input)]

\* what a collaborator's promise can reject with: an Error, a value that is
\* no Error and has no message, or null/undefined
Err(m) == [kind |-> "Error", msg |-> m]
NoExc == [kind |-> "none", msg |-> ""]
Rejections ==
    {Err("boom"), [kind |-> "value", msg |-> "undefined"],
     [kind |-> "nullish", msg |-> "undefined"]}
\* reading .message of null or undefined
TypeErr == Err("Cannot read properties of null")

\* how a piece of code ends: with a returned text or with a thrown value
Ok(t) == [raised |-> FALSE, text |-> t, exc |-> NoExc]
Thrown(e) == [raised |-> TRUE, text |-> <<>>, exc |-> e]

\* a handler's catch block: return `<prefix>${error.message}`
CatchMessage(prefix, e) ==
    IF e.kind = "nullish" THEN Thrown(TypeErr) ELSE Ok(<<prefix, e.msg>>)

\* goToPreviousPage's catch block: it logs error.message and returns
\* `Error navigating to previous page: ${error}`
CatchPrevious(e) ==
    IF e.kind = "nullish" THEN Thrown(TypeErr)
    ELSE Ok(<<"Error navigating to previous page: ">>
            \o (IF e.kind = "Error" THEN <<"Error: ", e.msg>> ELSE <<"value">>))

\* _call without its try/catch
CallNoCatch(o) == o

\* _call's catch block, lines 97-102
CallCatch(o) ==
    IF ~o.raised THEN o
    ELSE IF o.exc.kind = "Error" THEN Ok(<<"Error: ", o.exc.msg>>)
    ELSE Ok(<<"An unknown error occurred">>)

\* line 95: the text for an action that is no key of this.actions
UnknownAction(action) ==
    <<"Unknown action: ">> \o action \o <<". Available actions: ">> \o ActionKeys

NoPageText == <<"No page is open, please use open action first">>
NoPage == <<"No page is open">>

\* ----------------------------------------- PuppeteerBrowserTool: one call

IdleCall ==
    [pc |-> "idle", input |-> <<>>, action |-> <<>>, params |-> <<>>, target |-> 0,
     text |-> <<>>, used |-> {}, ret |-> <<>>, raised |-> FALSE, hadPage |-> FALSE,
     afterDispose |-> FALSE, fault |-> NoExc]

\* the call has met the failure e inside its handler
Faulted(r, e) == [r EXCEPT !.fault = e]

InFlight(c) == call[c].pc \notin {"idle", "done"}

\* the call has ended with outcome o of the handler
Finished(r, o) ==
    [r EXCEPT !.pc = "done", !.target = 0, !.text = <<>>,
              !.ret = CallCatch(o).text, !.raised = CallCatch(o).raised]

\* the call awaits an operation of the page it read from this.page
OnPage(r, where, pg) ==
    [r EXCEPT !.pc = where, !.target = pg, !.used = @ \cup {"browser"}]

\* getPageText has ended with got: the text action returns it; summarizePage
\* hands whatever text it got to summarizeText, which awaits this.model.invoke
AfterPageText(r, got) ==
    IF r.action = <<"text">> THEN Finished(r, got)
    ELSE IF got.raised THEN Finished(r, CatchMessage("Error summarizing page: ", got.exc))
    ELSE [r EXCEPT !.pc = "invoke", !.target = 0, !.text = got.text,
                   !.used = @ \cup {"model"}]

\* openPage up to its first await: initBrowser asks for a page only when
\* this.page is null, and throws when ctx.puppeteer is missing
BeginOpen(r, pg, avail) ==
    IF pg # 0 THEN OnPage(r, "goto", pg)
    ELSE IF avail THEN [r EXCEPT !.pc = "newPage", !.used = @ \cup {"browser"}]
    ELSE Finished(Faulted(r, Err("Puppeteer service is not available")),
                  CatchMessage("Error opening page: ",
                               Err("Puppeteer service is not available")))

\* every verb handled as open is
BeginAsOpen(r, pg, avail) == BeginOpen(r, pg, avail)

\* the handler this.actions[action] up to its first await
Begin(r, pg, avail) ==
    LET verb == r.action[1] IN
    IF verb = "open" THEN BeginOpen(r, pg, avail)
    ELSE IF verb \in {"text", "summarize"}
         THEN (IF pg = 0 THEN AfterPageText(r, Ok(NoPageText))
               ELSE OnPage(r, "evaluate", pg))
    ELSE IF pg = 0 THEN Finished(r, Ok(NoPage))
    ELSE IF verb = "select" THEN OnPage(r, "select", pg)
    ELSE IF verb = "previous" THEN OnPage(r, "goBack", pg)
    ELSE IF verb = "get-html" THEN OnPage(r, "content", pg)
    ELSE OnPage(r, "urls", pg)

\* _call, lines 90-96: the dispatch on the parsed action
Dispatch(r, pg, avail) ==
    IF Lookup(r.action) = "handler" THEN Begin(r, pg, avail)
    ELSE IF Lookup(r.action) = "Object" THEN Finished(r, Ok(r.params))
    ELSE IF Lookup(r.action) = "prototype"
         THEN Finished(r, Thrown(Err("this.actions[action] is not a function")))
    ELSE Finished(r, Ok(UnknownAction(r.action)))

\* --------------------------------------- PuppeteerBrowserTool: the actions

\* a call that leaves the time of the last action as it was
UntouchedTime == lastActionTime

\* _call, line 90: this.lastActionTime = Date.now()
TouchedTime == now

\* _call(input) up to the first await of the handler it dispatches to
StartCall(c, input, avail) ==
    /\ ~InFlight(c)
    /\ \A d \in Slots : d < c => InFlight(d)
    /\ LET parsed == Parsed[input]
           r == [IdleCall EXCEPT !.input = input, !.action = parsed.action,
                                 !.params = parsed.params, !.hadPage = (page # 0),
                                 !.afterDispose = disposed]
           next == Dispatch(r, page, avail)
       IN  /\ next.pc = "newPage" => created < MaxPages
           /\ call' = [call EXCEPT ![c] = next]
    /\ lastActionTime' = TouchedTime
    /\ UNCHANGED <<page, now, sweepDue, disposed, disposeClose, closers, openPages, created>>
    /\ UNCHANGED aroundTool

\* a tool call made while no other call to this tool is in flight
SerialCall(c, input, avail) ==
    /\ \A d \in Slots : ~InFlight(d)
    /\ StartCall(c, input, avail)

\* initBrowser: this.page = await puppeteer.browser.newPage(), then openPage
\* goes on to this.page.goto(url)
NewPageDone(c) ==
    /\ call[c].pc = "newPage"
    /\ \/ /\ created < MaxPages
          /\ created' = created + 1
          /\ openPages' = openPages \cup {created + 1}
          /\ page' = created + 1
          /\ call' = [call EXCEPT ![c] = OnPage(@, "goto", created + 1)]
       \/ /\ \E e \in Rejections :
                call' = [call EXCEPT ![c] =
                            Finished(Faulted(@, e),
                                     CatchMessage("Error opening page: ", e))]
          /\ UNCHANGED <<page, openPages, created>>
    /\ UNCHANGED <<lastActionTime, now, sweepDue, disposed, disposeClose, closers>>
    /\ UNCHANGED aroundTool

\* a handler without a catch block of its own
HandlerCatchRethrow(where, e) == Thrown(e)

\* the catch block of the handler that awaits at where, given the rejection e
HandlerCatch(where, e) ==
    IF where = "goto" THEN CatchMessage("Error opening page: ", e)
    ELSE IF where = "goBack" THEN CatchPrevious(e)
    ELSE IF where = "content" THEN CatchMessage("Error getting HTML: ", e)
    ELSE IF where = "urls" THEN CatchMessage("Error getting structured URLs: ", e)
    ELSE CatchMessage("Error selecting div: ", e)

\* an awaited operation of the page ends: ok is the text the handler returns
\* when it resolves (only an open page can answer); a rejection goes to the
\* handler's catch block
PageOpDone(c, where, ok) ==
    /\ call[c].pc = where
    /\ \/ /\ call[c].target \in openPages
          /\ call' = [call EXCEPT ![c] = Finished(@, Ok(ok))]
       \/ \E e \in Rejections :
             call' = [call EXCEPT ![c] = Finished(Faulted(@, e), HandlerCatch(where, e))]
    /\ UNCHANGED <<page, lastActionTime, now, sweepDue, disposed, disposeClose, closers,
                   openPages, created>>
    /\ UNCHANGED aroundTool

\* openPage: await this.page.goto(url, ...)
GotoDone(c) == PageOpDone(c, "goto", <<"Page opened successfully">>)

\* goToPreviousPage: await this.page.goBack(...)
GoBackDone(c) == PageOpDone(c, "goBack", <<"Navigated to previous page">>)

\* getHtml: return await this.page.content()
ContentDone(c) == PageOpDone(c, "content", <<"html">>)

\* getStructuredUrls: return await this.page.evaluate(...)
UrlsDone(c) == PageOpDone(c, "urls", <<"urls">>)

\* selectDiv: content || 'No content found', content being the element's
\* text, an empty text, or 'Element not found'
SelectDone(c) ==
    \E content \in {<<"content">>, <<"No content found">>, <<"Element not found">>} :
        PageOpDone(c, "select", content)

\* getPageText: const text = await this.page.evaluate(...); with a search
\* text it goes on to the text splitter and the vector store
EvaluateDone(c) ==
    /\ call[c].pc = "evaluate"
    /\ \/ /\ call[c].target \in openPages
          /\ IF call[c].params # <<>>
             THEN call' = [call EXCEPT ![c] =
                             [@ EXCEPT !.pc = "embed", !.target = 0,
                                       !.text = <<"pagetext">>,
                                       !.used = @ \cup {"embeddings"}]]
             ELSE call' = [call EXCEPT ![c] = AfterPageText(@, Ok(<<"pagetext">>))]
       \/ \E e \in Rejections :
             call' = [call EXCEPT ![c] =
                         AfterPageText(Faulted(@, e),
                                       CatchMessage("Error getting page text: ", e))]
    /\ UNCHANGED <<page, lastActionTime, now, sweepDue, disposed, disposeClose, closers,
                   openPages, created>>
    /\ UNCHANGED aroundTool

\* getPageText: MemoryVectorStore.fromDocuments and similaritySearch end
EmbedDone(c) ==
    /\ call[c].pc = "embed"
    /\ \/ call' = [call EXCEPT ![c] = AfterPageText(@, Ok(<<"chunks">>))]
       \/ \E e \in Rejections :
             call' = [call EXCEPT ![c] =
                         AfterPageText(Faulted(@, e),
                                       CatchMessage("Error getting page text: ", e))]
    /\ UNCHANGED <<page, lastActionTime, now, sweepDue, disposed, disposeClose, closers,
                   openPages, created>>
    /\ UNCHANGED aroundTool

\* summarizeText: const summary = await this.model.invoke(input)
InvokeDone(c) ==
    /\ call[c].pc = "invoke"
    /\ \/ call' = [call EXCEPT ![c] = Finished(@, Ok(<<"summary">>))]
       \/ \E e \in Rejections :
             call' = [call EXCEPT ![c] =
                         Finished(Faulted(@, e),
                                  CatchMessage("Error summarizing text: ", e))]
    /\ UNCHANGED <<page, lastActionTime, now, sweepDue, disposed, disposeClose, closers,
                   openPages, created>>
    /\ UNCHANGED aroundTool

\* a closeBrowser that calls close() whether there is a page or not
CloseBrowserUnguarded ==
    /\ Len(closers) < MaxClosers
    /\ closers' = Append(closers, page)

\* closeBrowser up to its await: with a page it calls this.page.close()
CloseBrowserStart ==
    IF page # 0
    THEN /\ Len(closers) < MaxClosers
         /\ closers' = Append(closers, page)
    ELSE UNCHANGED closers

\* time passes by one sweep period; the interval timer becomes due
Tick ==
    /\ now < MaxTime
    /\ now' = now + 1
    /\ sweepDue' = ~disposed
    /\ UNCHANGED <<page, lastActionTime, disposed, disposeClose, call, closers,
                   openPages, created>>
    /\ UNCHANGED aroundTool

\* startIdleTimer: the callback of ctx.setInterval
Sweep ==
    /\ sweepDue
    /\ ~disposed
    /\ sweepDue' = FALSE
    /\ IF now - lastActionTime > IdleTimeout
       THEN CloseBrowserStart
       ELSE UNCHANGED closers
    /\ UNCHANGED <<page, lastActionTime, now, disposed, disposeClose, call,
                   openPages, created>>
    /\ UNCHANGED aroundTool

\* startIdleTimer: the listener of the context's dispose event; the context
\* clears its interval timers when it is disposed
Dispose ==
    /\ ~disposed
    /\ disposed' = TRUE
    /\ sweepDue' = FALSE
    /\ CloseBrowserStart
    /\ disposeClose' = IF page # 0 THEN "pending" ELSE None
    /\ UNCHANGED <<page, lastActionTime, now, call, openPages, created>>
    /\ UNCHANGED aroundTool

\* closeBrowser after its await: page.close() resolved, this.page = null;
\* or it rejected and the catch block logs the error. The call made by the
\* dispose listener is the latest one: no sweep runs after the disposal.
CloseDone(i) ==
    /\ i \in 1..Len(closers)
    /\ closers' = SubSeq(closers, 1, i - 1) \o SubSeq(closers, i + 1, Len(closers))
    /\ \E settled \in {"resolved", "rejected"} :
          /\ IF settled = "resolved"
             THEN /\ page' = 0
                  /\ openPages' = openPages \ {closers[i]}
             ELSE UNCHANGED <<page, openPages>>
          /\ disposeClose' = IF disposeClose = "pending" /\ i = Len(closers)
                             THEN settled ELSE disposeClose
    /\ UNCHANGED <<lastActionTime, now, sweepDue, disposed, call, created>>
    /\ UNCHANGED aroundTool

ToolInit ==
    /\ page = 0
    /\ lastActionTime = 0
    /\ now = 0
    /\ sweepDue = FALSE
    /\ disposed = FALSE
    /\ disposeClose = None
    /\ call = [c \in Slots |-> IdleCall]
    /\ closers = <<>>
    /\ openPages = {}
    /\ created = 0

\* an operation that a call in flight awaits comes to its end
CallProgress ==
    \E c \in Slots :
        \/ NewPageDone(c)
        \/ GotoDone(c)
        \/ GoBackDone(c)
        \/ ContentDone(c)
        \/ UrlsDone(c)
        \/ SelectDone(c)
        \/ EvaluateDone(c)
        \/ EmbedDone(c)
        \/ InvokeDone(c)

\* what happens around the tool calls
ToolEnvironment ==
    \/ CallProgress
    \/ Tick
    \/ Sweep
    \/ Dispose
    \/ \E i \in 1..MaxClosers : CloseDone(i)

\* ctx.puppeteer is read by an open that finds no page: present or missing
Availability(input) ==
    IF page = 0 /\ Parsed[input].action = <<"open">> THEN BOOLEAN ELSE {TRUE}

\* tool calls issued one at a time
ToolNext ==
    \/ \E c \in Slots : \E input \in Inputs : \E avail \in Availability(input) :
          SerialCall(c, input, avail)
    \/ ToolEnvironment

\* the input lines of the calls that overlap: every verb alone and with a
\* parameter
OverlapInputs == {<<v>> : v \in Verbs} \cup {<<v, " ", "u">> : v \in Verbs}

\* tool calls that may start while other calls to the same tool are in flight,
\* with no sweep and no disposal in between
OverlapNext ==
    \/ \E c \in Slots : \E input \in OverlapInputs : \E avail \in Availability(input) :
          StartCall(c, input, avail)
    \/ CallProgress

\* ------------------------------- getPageText: the text of the document

\* A text is a sequence of pieces: a piece is one white space character or a
\* run of characters that are no white space ("t" for the text of the page,
\* "fence" for three backquotes). The walk of processNode over the tree below document.body
\* is the sequence of its calls and returns.

\* n copies of the text str
RECURSIVE Repeat(_, _)
Repeat(str, n) == IF n <= 0 THEN <<>> ELSE str \o Repeat(str, n - 1)

\* the elements whose children processNode visits, by the case that handles
\* them; div stands for every tag of the default case
Headings == {"h2"}
Blocks == {"p", "ul", "li", "table", "tr", "div"} \cup Headings
\* the elements of which processNode takes the textContent
Leaves == {"strong", "pre", "td"}
\* element.textContent?.trim() of such an element
Contents == {<<>>, <<"t">>, <<"t", "\n", "\n", "\n", "t">>}

\* the depth argument of the open processNode call: the default case passes
\* depth on, every other case passes depth + 1
Depth == Cardinality({i \in 1..Len(stack) : stack[i] # "div"})

\* ['h1', ..., 'h6'].indexOf(tagName) + 1
HeadingLevel(tag) == IF tag = "h2" THEN 2 ELSE 0

\* what a case appends before it visits the children
Opening(tag) ==
    IF tag \in Headings \cup {"p"}
    THEN Repeat(<<"\n">>, IF Depth > 0 THEN 1 ELSE 2)
         \o Repeat(<<"#">>, HeadingLevel(tag)) \o <<" ">>
    ELSE IF tag \in {"ul", "table"} THEN <<"\n">>
    ELSE IF tag = "li" THEN <<"\n">> \o Repeat(<<" ", " ">>, Depth) \o <<"-", " ">>
    ELSE IF tag = "tr" THEN <<"|">>
    ELSE <<>>

\* what a case appends after it has visited the children
Closing(tag) ==
    IF tag \in Headings \cup {"p", "ul", "table", "tr"} THEN <<"\n">> ELSE <<>>

\* what the case of an element appends whose children are not visited
LeafText(tag, content) ==
    IF tag = "strong" THEN <<" ", "**">> \o content \o <<"**", " ">>
    ELSE IF tag = "pre"
         THEN <<"\n", "fence", "\n">> \o content \o <<"\n", "fence", "\n">>
    ELSE <<" ">> \o content \o <<" ", "|">>

\* the length of the run of newlines at the start of str
RECURSIVE NewlineRun(_)
NewlineRun(str) ==
    IF str # <<>> /\ Head(str) = "\n" THEN 1 + NewlineRun(Tail(str)) ELSE 0

\* a text returned as it stands
KeepNewlines(str) == str

\* str.replace(/\n{3,}/g, '\n\n'): every maximal run of three or more
\* newlines becomes two newlines
RECURSIVE CollapseNewlines(_)
CollapseNewlines(str) ==
    IF str = <<>> THEN <<>>
    ELSE LET run == NewlineRun(str) IN
         IF run = 0 THEN <<Head(str)>> \o CollapseNewlines(Tail(str))
         ELSE Repeat(<<"\n">>, IF run >= 3 THEN 2 ELSE run)
              \o CollapseNewlines(SubSeq(str, run + 1, Len(str)))

\* processNode is called for a text node whose trimmed text is not empty
TextNode ==
    /\ ~walked
    /\ nodes < MaxNodes
    /\ nodes' = nodes + 1
    /\ structuredText' = structuredText \o <<" ", "t">>
    /\ UNCHANGED <<stack, walked, extracted>>
    /\ UNCHANGED aroundDom

\* processNode is called for a br element
BreakNode ==
    /\ ~walked
    /\ nodes < MaxNodes
    /\ nodes' = nodes + 1
    /\ structuredText' = structuredText \o <<"\n">>
    /\ UNCHANGED <<stack, walked, extracted>>
    /\ UNCHANGED aroundDom

\* processNode is called for an element of which it takes the textContent
LeafNode(tag, content) ==
    /\ ~walked
    /\ nodes < MaxNodes
    /\ nodes' = nodes + 1
    /\ structuredText' = structuredText \o LeafText(tag, content)
    /\ UNCHANGED <<stack, walked, extracted>>
    /\ UNCHANGED aroundDom

\* processNode is called for an element whose children it visits
EnterNode(tag) ==
    /\ ~walked
    /\ nodes < MaxNodes
    /\ nodes' = nodes + 1
    /\ structuredText' = structuredText \o Opening(tag)
    /\ stack' = Append(stack, tag)
    /\ UNCHANGED <<walked, extracted>>
    /\ UNCHANGED aroundDom

\* the children of the innermost open element have all been visited
LeaveNode ==
    /\ ~walked
    /\ stack # <<>>
    /\ structuredText' = structuredText \o Closing(stack[Len(stack)])
    /\ stack' = SubSeq(stack, 1, Len(stack) - 1)
    /\ UNCHANGED <<nodes, walked, extracted>>
    /\ UNCHANGED aroundDom

\* processNode(document.body) has returned:
\* return structuredText.trim().replace(/\n{3,}/g, '\n\n')
ReturnText ==
    /\ ~walked
    /\ stack = <<>>
    /\ walked' = TRUE
    /\ extracted' = CollapseNewlines(Trim(structuredText))
    /\ UNCHANGED <<structuredText, stack, nodes>>
    /\ UNCHANGED aroundDom

DomInit ==
    /\ structuredText = <<>>
    /\ stack = <<>>
    /\ nodes = 0
    /\ walked = FALSE
    /\ extracted = <<>>

\* the page function of getPageText, over every tree of at most MaxNodes nodes
DomNext ==
    \/ TextNode
    \/ BreakNode
    \/ \E tag \in Leaves : \E content \in Contents : LeafNode(tag, content)
    \/ \E tag \in Blocks : EnterNode(tag)
    \/ LeaveNode
    \/ ReturnText

\* ----------------------------- getStructuredUrls: the links of the document

\* window.location.hostname
CurrentHost == "here"

\* An a element, as far as the page function looks at it: href is "" (no
\* target), a URL, or a target that does not parse as a URL (a.href then gives
\* the attribute as it stands and new URL(href) throws); hostname, pathname
\* and search are the parts of the parsed URL; landmark is the nav, header or
\* footer element the link is inside of, if any.
Anchors ==
    [href : {"url"}, hostname : {"here", "there"}, pathname : {"/search", "/page"},
     search : {"?q=x", ""}, landmark : {"nav", "header", "none"}]
    \cup [href : {"", "unparseable"}, hostname : {""}, pathname : {""},
          search : {""}, landmark : {"none"}]

\* String.prototype.includes, for the paths and queries of the model
PathIncludesSearch(pathname) == pathname = "/search"
SearchIncludesQ(search) == search = "?q=x"

\* lines 418-434: the bucket of a link whose href parsed
Bucket(a) ==
    IF a.hostname = CurrentHost
    THEN IF PathIncludesSearch(a.pathname) \/ SearchIncludesQ(a.search) THEN "search"
         ELSE IF a.landmark = "nav" \/ a.landmark \in {"header", "footer"}
              THEN "navigation"
         ELSE "other"
    ELSE "external"

EmptyStructure == [search |-> <<>>, navigation |-> <<>>, external |-> <<>>, other |-> <<>>]

\* the callback of forEach runs for the next a element of the document; the
\* buckets hold the positions of the links
VisitLink(a) ==
    /\ urlsResult = "pending"
    /\ Len(links) < MaxLinks
    /\ links' = Append(links, a)
    /\ IF a.href = "" THEN UNCHANGED <<urlStructure, urlsResult>>
       ELSE IF a.href = "unparseable"
            THEN /\ urlsResult' = "Error getting structured URLs: "
                 /\ UNCHANGED urlStructure
       ELSE /\ urlStructure' =
                  [urlStructure EXCEPT ![Bucket(a)] = Append(@, Len(links) + 1)]
            /\ UNCHANGED urlsResult
    /\ UNCHANGED aroundLinks

\* forEach has visited every link: return JSON.stringify(urlStructure, null, 2)
ReturnUrls ==
    /\ urlsResult = "pending"
    /\ urlsResult' = "urlStructure"
    /\ UNCHANGED <<links, urlStructure>>
    /\ UNCHANGED aroundLinks

LinksInit ==
    /\ links = <<>>
    /\ urlStructure = EmptyStructure
    /\ urlsResult = "pending"

\* the page function of getStructuredUrls, over every document of at most
\* MaxLinks links
LinksNext ==
    \/ \E a \in Anchors : VisitLink(a)
    \/ ReturnUrls

\* ------------------------------------------------------------ sseIterable

\* A decoded chunk is a sequence of pieces, as an input line is: "data:" and
\* "[DONE]" are runs of solid characters, " " and "\n" single characters.
Chunks ==
    { <<>>,
      <<" ", "\n">>,
      <<"data:", " ", "x", "\n", "\n">>,
      <<"data:", " ", "x", "\n", "\n", "data:", " ", "x", "\n", "\n">>,
      <<"x", "\n", "\n", "\n", "\n", "x">>,
      <<"data:", " ", "[DONE]", "\n", "\n">>,
      <<"data:", " ", "\n", "\n">>,
      <<"data:", "x">> }

\* the string the generator yields when the stream has ended
DoneMark == <<"[DONE]">>

\* decodeValue.split('\n\n'): cur is the item being collected
RECURSIVE SplitFrom(_, _)
SplitFrom(cur, rest) ==
    IF rest = <<>> THEN <<cur>>
    ELSE IF Len(rest) >= 2 /\ rest[1] = "\n" /\ rest[2] = "\n"
         THEN <<cur>> \o SplitFrom(<<>>, SubSeq(rest, 3, Len(rest)))
         ELSE SplitFrom(Append(cur, rest[1]), Tail(rest))

Split(str) == SplitFrom(<<>>, str)

\* str.trim().length === 0
Blank(str) == Len(Trim(str)) = 0

\* item.startsWith('data: ')
StartsWithData(item) == Len(item) >= 2 /\ item[1] = "data:" /\ item[2] = " "

\* if (item.startsWith('data: ')) item = item.substring(6)
StripData(item) == IF StartsWithData(item) THEN SubSeq(item, 3, Len(item)) ELSE item

\* the for loop from index from on: the index of the first item that is not
\* skipped, 0 when the loop runs to its end
NextItem(items, from) ==
    LET solid == {k \in from..Len(items) : ~Blank(items[k])} IN
    IF solid = {} THEN 0 ELSE CHOOSE k \in solid : \A j \in solid : k <= j

\* yield item, for the item at index k of items
YieldItem(items, k) ==
    /\ cursor' = k
    /\ yielded' = Append(yielded, [at |-> "item", item |-> items[k],
                                   value |-> StripData(items[k])])
    /\ ssePc' = "yielded"

\* the consumer's first next(): the generator runs to its first await
FirstNext(ok) ==
    /\ ssePc = "start"
    /\ IF ok
       THEN ssePc' = "reading" /\ reader' = "held"
       ELSE ssePc' = "errorBody" /\ reader' = reader
    /\ UNCHANGED <<splitted, cursor, yielded, thrown, reads>>
    /\ UNCHANGED aroundSse

\* await response.json().catch(() => ({})) settles; throw new ChatHubError
ErrorBodyDone ==
    /\ ssePc = "errorBody"
    /\ thrown' = "NETWORK_ERROR"
    /\ ssePc' = "threw"
    /\ UNCHANGED <<reader, splitted, cursor, yielded, reads>>
    /\ UNCHANGED aroundSse

\* await reader.read() resolves with a chunk
ReadChunk(chunk) ==
    /\ ssePc = "reading"
    /\ reads < MaxReads
    /\ reads' = reads + 1
    /\ IF Blank(chunk)
       THEN UNCHANGED <<ssePc, splitted, cursor, yielded>>
       ELSE /\ splitted' = Split(chunk)
            /\ YieldItem(Split(chunk), NextItem(Split(chunk), 1))
    /\ UNCHANGED <<reader, thrown>>
    /\ UNCHANGED aroundSse

\* await reader.read() resolves with done: yield '[DONE]'
ReadEnd ==
    /\ ssePc = "reading"
    /\ yielded' = Append(yielded, [at |-> "end", item |-> <<>>, value |-> DoneMark])
    /\ ssePc' = "yieldedDone"
    /\ UNCHANGED <<reader, splitted, cursor, thrown, reads>>
    /\ UNCHANGED aroundSse

\* await reader.read() rejects: the finally block runs, the rejection leaves
\* the generator
ReadFails ==
    /\ ssePc = "reading"
    /\ reader' = "released"
    /\ thrown' = "read failure"
    /\ ssePc' = "threw"
    /\ UNCHANGED <<splitted, cursor, yielded, reads>>
    /\ UNCHANGED aroundSse

\* the consumer's next() after an item: the for loop goes on, and after its
\* end the while loop awaits the next read
Resume ==
    /\ ssePc = "yielded"
    /\ IF NextItem(splitted, cursor + 1) # 0
       THEN YieldItem(splitted, NextItem(splitted, cursor + 1))
       ELSE ssePc' = "reading" /\ UNCHANGED <<cursor, yielded>>
    /\ UNCHANGED <<reader, splitted, thrown, reads>>
    /\ UNCHANGED aroundSse

\* the consumer's next() after '[DONE]': return, then the finally block
ResumeAfterDone ==
    /\ ssePc = "yieldedDone"
    /\ reader' = "released"
    /\ ssePc' = "returned"
    /\ UNCHANGED <<splitted, cursor, yielded, thrown, reads>>
    /\ UNCHANGED aroundSse

\* the consumer stops early (break in for await, or return() on the iterator):
\* a generator suspended at a yield runs its finally block, one that has not
\* started runs nothing
ConsumerReturn ==
    /\ ssePc \in {"start", "yielded", "yieldedDone"}
    /\ reader' = IF ssePc = "start" THEN reader ELSE "released"
    /\ ssePc' = "stopped"
    /\ UNCHANGED <<splitted, cursor, yielded, thrown, reads>>
    /\ UNCHANGED aroundSse

SseInit ==
    /\ ssePc = "start"
    /\ reader = None
    /\ splitted = <<>>
    /\ cursor = 0
    /\ yielded = <<>>
    /\ thrown = None
    /\ reads = 0

SseNext ==
    \/ \E ok \in BOOLEAN : FirstNext(ok)
    \/ ErrorBodyDone
    \/ \E chunk \in Chunks : ReadChunk(chunk)
    \/ ReadEnd
    \/ ReadFails
    \/ Resume
    \/ ResumeAfterDone
    \/ ConsumerReturn

\* ------------------------------------------------------ ObjectLock claims

InQueue(id) == \E i \in 1..Len(queue) : queue[i] = id
Waiting == {p \in Callers : pc[p] \in {"waiting", "waitingRun"}}

\* C1: with callers that unlock only the id of their own completed lock(), and
\* only once, no two callers are at the same time between the return of their
\* lock() and their unlock(); and whoever is there has the flag set.
MutualExclusion ==
    /\ Cardinality(Holders) <= 1
    /\ Holders # {} => lock

\* C1 witness: a caller holds the lock with a ticket that is not the head of
\* the queue while the caller of the head ticket is still polling
MutualExclusionWitness ==
    \E p \in Holders : \E q \in Waiting :
        /\ Len(queue) = 2
        /\ queue[1] = ticket[q]
        /\ queue[2] = ticket[p]

\* C2: strict FIFO: whenever the lock is held, the holder's ticket is the
\* lowest id still in the queue, that is the head of the queue.
StrictFifo ==
    \A p \in Holders : Len(queue) > 0 /\ queue[1] = ticket[p]

\* C3: unlock(id) throws exactly when the flag is clear or id is not in the
\* queue, and a throwing unlock leaves flag, queue and id counter as they were.
UnlockFailsExactlyWhenImproper ==
    [][last'.op = "unlock" =>
          /\ last'.threw <=> (~lock \/ ~InQueue(last'.id))
          /\ last'.threw => (lock' = lock /\ queue' = queue /\ currentId' = currentId)
      ]_vars

\* C3 witness: an unlock() has just thrown although the lock is held, because
\* its id was not in the queue
UnlockFailsWitness ==
    /\ last.op = "unlock"
    /\ last.threw
    /\ lock
    /\ Len(queue) > 0

\* C4: an unlock(id) that does not throw removes exactly id from the queue,
\* wherever it stood, keeps the other tickets in their order and clears the flag.
UnlockRemovesExactlyTicket ==
    [][(last'.op = "unlock" /\ ~last'.threw) =>
          /\ lock' = FALSE
          /\ LET Keep(x) == x # last'.id IN queue' = SelectSeq(queue, Keep)
          /\ currentId' = currentId
      ]_vars

\* C4 witness: the ticket of a caller that is still waiting, standing in the
\* middle of the queue, has just been removed by an unlock()
UnlockRemovesWitness ==
    /\ last.op = "unlock"
    /\ ~last.threw
    /\ last.id = 1
    /\ queue = <<0, 2>>
    /\ \E p \in Waiting : ticket[p] = 1

\* C5: a runLocked body runs only while its ticket is queued, the flag is set
\* and nobody else holds the lock; once the body has resolved the ticket is out
\* of the queue and the flag, if set, was set by another call; the call
\* resolves to the body's result; when every call has finished the lock is
\* free and the queue empty.
RunLockedReleases ==
    /\ \A p \in Callers : pc[p] = "running" =>
          (lock /\ InQueue(ticket[p]) /\ Holders = {p})
    /\ \A p \in Callers : pc[p] = "released" =>
          (/\ ~InQueue(ticket[p])
           /\ result[p] \in FnResults
           /\ lock => \E q \in Callers \ {p} : pc[q] \in Held \cup {"failed"})
    /\ \A p \in Callers : pc[p] = "returned" =>
          (ret[p] \in FnResults /\ ret[p] = result[p])
    /\ (\A p \in Callers : pc[p] \in {"idle", "returned"}) => (~lock /\ queue = <<>>)

\* C5 witness: two runLocked calls have returned and nothing is in flight
RunLockedReleasesWitness ==
    /\ \E p, q \in Callers : p # q /\ pc[p] = "returned" /\ pc[q] = "returned"
    /\ \A p \in Callers : pc[p] \in {"idle", "returned"}
    /\ currentId >= 2

\* C6: after the body of a runLocked call has failed, the flag stays set, the
\* ticket stays queued and no caller is ever granted the lock again.
RunLockedFailureStarves ==
    \A p \in Callers : pc[p] = "failed" =>
        (lock /\ InQueue(ticket[p]) /\ Holders = {})

\* C6 witness: the latest step was a lock() call made after the failure, and it
\* is waiting
RunLockedFailureWitness ==
    \E p, q \in Callers :
        /\ pc[p] = "failed"
        /\ q \in Waiting
        /\ last.op = "lock"
        /\ last.id = ticket[q]

\* C7: the ids handed out by lock() are strictly increasing in call order, so
\* no id is handed out twice, and no two callers in a call share a ticket.
TicketsUniqueIncreasing ==
    /\ \A i, j \in 1..Len(issued) : i < j => issued[i] < issued[j]
    /\ \A p, q \in Callers : (p # q /\ ticket[p] # -1) => ticket[p] # ticket[q]

\* C7 witness: a lock() was called after earlier tickets had been released
TicketsUniqueWitness ==
    /\ Len(issued) = MaxTickets
    /\ Len(queue) = 1

\* the caller's lock() is waiting with a ticket that is no longer queued
Orphaned(p) == p \in Waiting /\ ~InQueue(ticket[p])

\* C16: an unlock(t) made while the lock() call of ticket t is still waiting
\* does not grant the lock to that call, and from then on the call stays
\* waiting, whatever lock() and unlock() calls follow.
OutOfTurnReleaseStarves ==
    /\ [][\A p \in Callers :
            (last'.op = "unlock" /\ ~last'.threw /\ p \in Waiting
                /\ ticket[p] = last'.id) =>
                    (pc'[p] = pc[p] /\ Orphaned(p)')]_vars
    /\ [][\A p \in Callers :
            Orphaned(p) => (Orphaned(p)' /\ ticket'[p] = ticket[p])]_vars

\* C16 witness: the ticket of a waiting lock() was released out of turn, and a
\* ticket handed out later has since been granted the lock and released it
OutOfTurnReleaseWitness ==
    \E p \in Callers :
        /\ Orphaned(p)
        /\ ~lock
        /\ last.op = "unlock"
        /\ ~last.threw
        /\ last.id > ticket[p]

\* C17: an unlock(t) that does not throw, made for a queued ticket t while a
\* caller h holds the lock with another ticket, clears the flag although h is
\* still between its lock() and its unlock(); and a lock() called while the
\* flag is clear is granted at once.
PrematureRelease ==
    /\ [][\A h \in Callers :
            (last'.op = "unlock" /\ ~last'.threw /\ InQueue(last'.id)
                /\ pc[h] \in Held /\ ticket[h] # last'.id) =>
                    (lock' = FALSE /\ pc'[h] \in Held)]_vars
    /\ [][(last'.op = "lock" /\ ~lock) =>
            (lock' /\ \E p \in Callers :
                        pc[p] \notin Held /\ pc'[p] \in Held /\ ticket'[p] = last'.id)]_vars

\* C17 witness: two callers hold the lock at once: the ticket of a waiting
\* lock() was released while the first held the lock, and the lock() called
\* next was granted at once
PrematureReleaseWitness ==
    /\ Cardinality(Holders) = 2
    /\ last.op = "lock"
    /\ \E p \in Holders : ticket[p] = last.id
    /\ \E q \in Callers : Orphaned(q)

\* ----------------------------------------- PuppeteerBrowserTool claims

Started(c) == call[c].pc # "idle"
Ended(c) == call[c].pc = "done"
SessionVerbs ==
    {"summarize", "text", "select", "previous", "get-html", "get-structured-urls"}
RunsSessionVerb(c) ==
    Started(c) /\ Lookup(call[c].action) = "handler" /\ call[c].action[1] \in SessionVerbs

\* C8: _call never raises: whatever the input line, the state of the page and
\* the failure of a collaborator, a call that has ended has returned a text.
CallNeverRaises ==
    \A c \in Slots : Ended(c) => ~call[c].raised

\* C8 witness: a collaborator rejected with null, the handler's own catch block
\* threw on error.message, and the call still returned a text
CallNeverRaisesWitness ==
    \E c \in Slots :
        /\ Ended(c)
        /\ call[c].ret = <<"Error: ", TypeErr.msg>>
        /\ call[c].used # {}

\* C9: with tool calls issued one at a time, the tool never has more than one
\* page that it created and has not closed, and an open that finds a page asks
\* the browser for no new one.
SinglePage ==
    /\ Cardinality(openPages) <= 1
    /\ \A c \in Slots : call[c].pc = "newPage" => ~call[c].hadPage

\* C10: a session verb issued while no page is open calls no collaborator and
\* ends at once, returning the no-page-open advisory and leaving the page absent.
NoPageAdvisory ==
    \A c \in Slots : (RunsSessionVerb(c) /\ ~call[c].hadPage) =>
        /\ Ended(c)
        /\ call[c].ret \in {NoPage, NoPageText}
        /\ ~call[c].raised
        /\ call[c].used = {}

\* the input line has no space in it
NoSpace(input) == IndexOf(input, " ") = -1
\* the line is one of the seven verbs, whatever its case
KnownVerb(input) == Len(input) = 1 /\ LowerPiece(input[1]) \in Verbs
\* the line `open <input>`
OpenLine(input) == <<"open", " ">> \o input

\* C11: a call whose input has no space and is no known verb (whatever its
\* case) is handled as the call of `open <input>`: it runs the open handler with
\* the same parameter; a call whose input has no space and is a known verb runs
\* that verb's handler with empty parameters.
FallbackIsOpen ==
    \A c \in Slots : (Started(c) /\ NoSpace(call[c].input)) =>
        IF KnownVerb(call[c].input)
        THEN /\ call[c].action = ToLowerCase(call[c].input)
             /\ call[c].params = <<>>
        ELSE /\ call[c].action = Parse(OpenLine(call[c].input)).action
             /\ call[c].action = <<"open">>
             /\ call[c].params = Parse(OpenLine(call[c].input)).params

\* the first token of a line that has a space, trimmed and in lower case
FirstToken(input) == ToLowerCase(Trim(Slice(input, 0, IndexOf(input, " "))))
\* the line has a space and its first token is none of the seven verbs
UnknownVerbLine(input) ==
    /\ ~NoSpace(input)
    /\ ~(Len(FirstToken(input)) = 1 /\ FirstToken(input)[1] \in Verbs)
\* the text names every one of the seven verbs
Enumerates(text) == \A v \in Verbs : \E i \in 1..Len(text) : text[i] = v

\* C12: a call whose input has a space and whose first token is none of the
\* seven verbs ends at once: it returns a text that names all seven verbs,
\* raises nothing, runs no handler and calls no collaborator, and leaves the
\* page, the browser's pages and the pending closures as they were.
UnknownVerbListed ==
    [][\A c \in Slots :
          (call'[c] # call[c] /\ UnknownVerbLine(call'[c].input)) =>
              /\ call'[c].pc = "done"
              /\ ~call'[c].raised
              /\ Enumerates(call'[c].ret)
              /\ call'[c].ret = UnknownAction(FirstToken(call'[c].input))
              /\ Lookup(call'[c].action) = "undefined"
              /\ call'[c].used = {}
              /\ UNCHANGED <<page, openPages, created, closers>>
      ]_vars

\* the step is a tick of the idle sweep
SweepStep == sweepDue /\ ~sweepDue' /\ ~disposed'
\* no action for longer than the idle timeout
IdleTooLong == now - lastActionTime > IdleTimeout
\* the call found no page because the idle sweep had closed the page: a page
\* had been created, and only the sweep calls closeBrowser before the disposal
AfterIdleClosure(c) ==
    Started(c) /\ ~call[c].hadPage /\ created > 0 /\ ~disposed

\* C13: a sweep tick that finds a page and more than the idle timeout since the
\* last call closes that page, and a session verb called after the closure,
\* with no open in between, returns the no-page-open advisory; a sweep tick
\* that finds no more than the idle timeout since the last call leaves the
\* page open.
IdleSweepCloses ==
    /\ [](\A c \in Slots :
            (AfterIdleClosure(c) /\ RunsSessionVerb(c) /\ Ended(c)) =>
                call[c].ret \in {NoPage, NoPageText})
    /\ [][(SweepStep /\ IdleTooLong /\ page # 0) =>
              (closers' = Append(closers, page) /\ page \in openPages)]_vars
    /\ [][(SweepStep /\ ~IdleTooLong) =>
              UNCHANGED <<page, openPages, closers>>]_vars

\* the dispose listener has run to its end and its page.close() did not fail
DisposeHandled == disposed /\ disposeClose \in {None, "resolved"}
\* no call is in flight and no call was made after the disposal
CallsOfBeforeReturned ==
    \A c \in Slots : ~InFlight(c) /\ ~call[c].afterDispose

\* C14: once the dispose event has been handled and every call that was in
\* flight at that moment has returned, the tool holds no page, whatever the
\* order in which the disposal and the steps of the calls took place.
DisposalTeardown ==
    (DisposeHandled /\ CallsOfBeforeReturned) => page = 0

\* the step starts a call
CallStarts == \E c \in Slots : ~InFlight(c) /\ call'[c] # call[c]
\* the step is a clock tick, a sweep tick, the disposal, or the start or the
\* end of a closeBrowser
TimerOrCloseStep ==
    now' # now \/ sweepDue' # sweepDue \/ disposed' # disposed \/ closers' # closers

\* C15: every call, however it ends, sets the time of the last action to the
\* current time; that time never decreases and is never ahead of the clock;
\* the sweep, the disposal and closeBrowser leave it as it was.
IdleStampFrame ==
    /\ [](lastActionTime <= now)
    /\ [][CallStarts => (lastActionTime' = now /\ now' = now)]_vars
    /\ [][lastActionTime' >= lastActionTime]_vars
    /\ [][TimerOrCloseStep => lastActionTime' = lastActionTime]_vars

\* C15 witness: a call that was rejected as an unknown verb, made after the
\* sweep had closed the page, has set the time of the last action to the
\* current time
IdleStampWitness ==
    \E c \in Slots :
        /\ Ended(c)
        /\ Lookup(call[c].action) = "undefined"
        /\ AfterIdleClosure(c)
        /\ lastActionTime = now
        /\ now > IdleTimeout

\* the calls that are waiting for a page they asked the browser for
Requesting == {c \in Slots : call[c].pc = "newPage"}

\* C18: also when open calls overlap, at most one request for a page is
\* outstanding at a time, and every page that the tool created and that is not
\* closed is the page the tool holds.
SinglePageOverlapping ==
    /\ Cardinality(Requesting) <= 1
    /\ \A pg \in openPages : pg = page

\* the step is the handling of the dispose event
DisposeStep == ~disposed /\ disposed'

\* C19: the tool goes from no page to a page only when the newPage() awaited
\* by an open call resolves: no other verb, no unknown verb, no sweep tick and
\* no disposal does that; it goes from a page to no page only when a
\* closeBrowser ends, and closeBrowser is called by the sweep and by the
\* disposal only.
OnlyOpenCreates ==
    /\ [][(page = 0 /\ page' # 0) =>
              \E c \in Slots :
                  /\ call[c].pc = "newPage"
                  /\ call[c].action = <<"open">>
                  /\ call'[c].pc = "goto"
                  /\ call'[c].target = page'
                  /\ page' \notin openPages]_vars
    /\ [][(page # 0 /\ page' = 0) => Len(closers') < Len(closers)]_vars
    /\ [][Len(closers') > Len(closers) => (SweepStep \/ DisposeStep)]_vars

\* C19 witness: after the idle sweep has closed the first page, an open that
\* found no page has created a second one
OnlyOpenCreatesWitness ==
    \E c \in Slots :
        /\ AfterIdleClosure(c)
        /\ call[c].action = <<"open">>
        /\ call[c].pc = "goto"
        /\ page = 2
        /\ openPages = {2}

\* what open returns when ctx.puppeteer is missing
UnavailableText == <<"Error opening page: ", "Puppeteer service is not available">>
\* what open returns when the navigation fails: the text of openPage's catch
\* block, or the text of _call's catch block when that one threw
NavigationFailedTexts ==
    {<<"Error opening page: ", e.msg>> : e \in {x \in Rejections : x.kind # "nullish"}}
    \cup {<<"Error: ", TypeErr.msg>>}

\* C20: an open made while ctx.puppeteer is missing and no page exists returns
\* the error text and leaves the tool without a page; an open whose page
\* exists and whose navigation fails returns an error text and leaves the
\* page as it is; and a session verb that finds a page runs against it and
\* does not return the no-page-open advisory.
FailedOpenState ==
    /\ [](\A c \in Slots :
            (Ended(c) /\ call[c].action = <<"open">>
                /\ (call[c].used = {} \/ call[c].ret = UnavailableText)) =>
                    /\ call[c].ret = UnavailableText
                    /\ call[c].used = {}
                    /\ ~call[c].hadPage
                    /\ page = 0)
    /\ [][\A c \in Slots :
            (call[c].pc = "goto" /\ call'[c].pc = "done"
                /\ call'[c].ret # <<"Page opened successfully">>) =>
                    /\ call'[c].ret \in NavigationFailedTexts
                    /\ ~call'[c].raised
                    /\ UNCHANGED <<page, openPages, closers>>]_vars
    /\ [](\A c \in Slots :
            (RunsSessionVerb(c) /\ call[c].hadPage) =>
                /\ "browser" \in call[c].used
                /\ call[c].ret \notin {NoPage, NoPageText})

\* C20 witness: an open that found no page got one from the browser, its
\* navigation failed, it returned the error text, and the tool holds the page
FailedOpenWitness ==
    \E c \in Slots :
        /\ Ended(c)
        /\ call[c].action = <<"open">>
        /\ ~call[c].hadPage
        /\ call[c].ret = <<"Error opening page: ", "boom">>
        /\ page # 0
        /\ page \in openPages

\* the call ran one of the seven handlers
RunsHandler(c) == Started(c) /\ Lookup(call[c].action) = "handler"

\* C21: a call that met a failure inside the handler of one of the seven verbs
\* returns the text `Error: ` followed by the message of that failure.
FailureTextPrefix ==
    \A c \in Slots :
        (Ended(c) /\ RunsHandler(c) /\ call[c].fault # NoExc) =>
            call[c].ret = <<"Error: ", call[c].fault.msg>>

\* the step calls closeBrowser
CloseBrowserCall == (SweepStep /\ IdleTooLong) \/ DisposeStep
\* the sequence q without its i-th element
Without(q, i) == SubSeq(q, 1, i - 1) \o SubSeq(q, i + 1, Len(q))

HasLongRun(str) ==
    \E i \in 1..(Len(str) - 2) : str[i] = "\n" /\ str[i + 1] = "\n" /\ str[i + 2] = "\n"

\* C23: the text that the extraction returns neither starts nor ends with
\* white space and has no three newlines in a row, whatever the tree.
ExtractedTextTidy ==
    walked =>
        /\ extracted # <<>> =>
              (extracted[1] \notin WhiteSpace /\ extracted[Len(extracted)] \notin WhiteSpace)
        /\ ~HasLongRun(extracted)

\* C23 witness: a text followed by adjacent empty blocks and headings, which
\* gave a run of three or more newlines inside the text, and the extraction
\* has returned
ExtractedTextWitness ==
    /\ walked
    /\ HasLongRun(Trim(structuredText))
    /\ \A i \in 1..Len(structuredText) : structuredText[i] \in {"t", " ", "\n", "#"}
    /\ Len(extracted) > 2

BucketNames == {"search", "navigation", "external", "other"}
\* the bucket the order of the claim gives
BucketByOrder(a) ==
    IF a.hostname # CurrentHost THEN "external"
    ELSE IF a.pathname = "/search" \/ a.search = "?q=x" THEN "search"
    ELSE IF a.landmark # "none" THEN "navigation"
    ELSE "other"
\* the positions in a bucket
InBucket(b) == {urlStructure[b][k] : k \in 1..Len(urlStructure[b])}

\* C24: when get-structured-urls has ended, it has returned the four buckets,
\* every link with a target is in the bucket that the order external, search,
\* navigation, other gives it and in no other, and the links of a bucket are
\* in document order.
UrlBuckets ==
    urlsResult # "pending" =>
        /\ urlsResult = "urlStructure"
        /\ \A i \in 1..Len(links) : links[i].href # "" =>
              \A b \in BucketNames : i \in InBucket(b) <=> b = BucketByOrder(links[i])
        /\ \A b \in BucketNames : \A j, k \in 1..Len(urlStructure[b]) :
              j < k => urlStructure[b][j] < urlStructure[b][k]

\* C25: with callers that keep to the contract, bodies that do not fail and
\* waiters that poll again and again, every lock() call that waits is granted
\* the lock in the end, also when lock() calls keep arriving.
LockEventuallyReturns ==
    \A p \in Callers : (p \in Waiting) ~> (pc[p] \in Held)

\* C26: whatever lock() and unlock() calls are made, misuse included, the
\* queue holds ticket ids in strictly increasing order (so they are distinct),
\* every queued id is below the next id to be issued, and the queue is not
\* empty while the flag is set.
QueueStructure ==
    /\ \A i, j \in 1..Len(queue) : i < j => queue[i] < queue[j]
    /\ \A i \in 1..Len(queue) : queue[i] < currentId
    /\ lock => Len(queue) > 0

\* a stray unlock() has taken a ticket out of the middle and a later lock()
\* was granted behind an older queued ticket
QueueStructureWitness ==
    /\ strays > 0
    /\ lock
    /\ Len(queue) = 2
    /\ queue[2] - queue[1] > 1
    /\ last.op = "lock"

\* the call runs the handler of a verb against the page the tool holds
RunsAgainstPage(c) ==
    InFlight(c) /\ RunsHandler(c) /\ page # 0 /\ call[c].target = page

\* C27: between the start of a tool call and its return no sweep tick closes
\* the page the call's handler is running against, however long the handler
\* takes.
SweepSparesRunning ==
    [][(SweepStep /\ \E c \in Slots : RunsAgainstPage(c)) => closers' = closers]_vars

\* the generator has finished, one way or another
SseOver == ssePc \in {"returned", "stopped", "threw"}

\* C28 (items): every value yielded before the end of the stream is an item
\* that is not blank, without its leading `data: `.
SseItems ==
    \A k \in 1..Len(yielded) :
        yielded[k].at = "item" =>
            /\ ~Blank(yielded[k].item)
            /\ yielded[k].value = StripData(yielded[k].item)
            /\ ~StartsWithData(yielded[k].item) => yielded[k].value = yielded[k].item

\* C28 (end): `[DONE]` is yielded once, as the last value, when the stream
\* has ended.
SseDoneOnce ==
    /\ \A k \in 1..Len(yielded) : yielded[k].value = DoneMark => k = Len(yielded)
    /\ ssePc \in {"yieldedDone", "returned"} =>
           /\ Len(yielded) > 0
           /\ yielded[Len(yielded)].at = "end"
           /\ Cardinality({k \in 1..Len(yielded) : yielded[k].value = DoneMark}) = 1

\* C28 (reader): the reader is released on every way out: the normal end, a
\* failing read, a consumer that stops early.
SseReleases == SseOver => reader # "held"

\* C28 (not ok): for a response that is not ok the generator throws the
\* network error without a reader and without a value.
SseNotOk ==
    /\ ssePc = "errorBody" => reader = None /\ yielded = <<>>
    /\ thrown = "NETWORK_ERROR" => reader = None /\ yielded = <<>> /\ ssePc = "threw"

\* C28: sseIterable yields only items that are not blank, each without its
\* leading `data: `; yields `[DONE]` exactly once, as its last value, when the
\* stream ends; releases the reader on every way out; and for a response that
\* is not ok throws the network error before it takes a reader, yielding
\* nothing.
SseContract == SseItems /\ SseDoneOnce /\ SseReleases /\ SseNotOk

Init == LockInit /\ ToolInit /\ DomInit /\ LinksInit /\ SseInit

SpecLock == Init /\ [][LockNext]_vars

SpecLockMisuse == Init /\ [][MisuseNext]_vars

SpecTool == Init /\ [][ToolNext]_vars

SpecOverlap == Init /\ [][OverlapNext]_vars

SpecDom == Init /\ [][DomNext]_vars

SpecLinks == Init /\ [][LinksNext]_vars

SpecSse == Init /\ [][SseNext]_vars

SpecLockRecurring == Init /\ [][RecurringNext]_vars /\ RecurringFairness

Spec == SpecLock

====
